---- MODULE Spec2Model ----
(***************************************************************************)
(* Two-stage RAG pipeline of module_3.2_rag: vector search, optional       *)
(* Cohere reranking, response generation with citations.                   *)
(*                                                                         *)
(* Scores are abstracted to two levels, 0 and 1.                           *)
(* A chunk's text is abstracted to its identity, its length and the        *)
(* position of the last '.' inside its first 200 characters.               *)
(***************************************************************************)
EXTENDS Integers, Sequences, FiniteSets, TLC

VARIABLES
    env,            \* configuration read at start-up (is COHERE_API_KEY set)
    options,        \* RAGOptions passed to RAGPipeline.query
    pc,             \* position of the query() coroutine (its await points)
    now,            \* Date.now()
    pipelineStartTime,
    stageStart,     \* stage1Start / stage2Start / stage3Start of the running stage
    candidates,     \* result of vectorSearch.search
    finalResults,   \* RerankResult[] handed to the generator
    metadata,       \* QueryMetadata under construction
    context,        \* prompt context built by buildContext
    outcome,        \* what query() returned or threw
    calls,          \* call log of the collaborators, in program order
    rr,             \* a direct invocation of CohereReranker.rerank
    runs,           \* concurrent executions of query() on one pipeline
    frames,         \* their per-call state (pipelineStartTime ... metadata)
    cmp,            \* an invocation of queryWithComparison
    store,          \* VectorSearchService.vectorStore and the connections opened
    batch,          \* a request to POST /query/batch
    health,         \* an invocation of RAGPipeline.healthCheck
    vsearch         \* a direct invocation of VectorSearchService.search

\* state of the concurrent executions, of the routes and of the health check
serviceVars == <<runs, frames, cmp, store, batch, health, vsearch>>

vars == <<env, options, pc, now, pipelineStartTime, stageStart, candidates,
          finalResults, metadata, context, outcome, calls, rr, serviceVars>>

-----------------------------------------------------------------------------
(* Bounds *)

MaxCand == 2
MaxResp == 2
MaxK == 2

-----------------------------------------------------------------------------
(* Data *)

\* RERANK_TOP_K, env.CHAT_MODEL (defaults of the configuration schema)
RERANK_TOP_K == 5

ChatModel == "gpt-4o-mini"

Undefined == "undefined"

\* an optional number: <<>> when undefined, <<v>> when set to v
Absent == <<>>

Some(v) == <<v>>

Min(a, b) == IF a < b THEN a ELSE b

Papers == 1..MaxCand

\* a score of 0 (falsy in JavaScript) and a positive score
Scores == {0, 1}

\* Text of the chunk of paper d: identity, length, index of the last '.'
\* within the first 200 characters (-1 when there is none).
ChunkOf(d) ==
    CASE d = 1 -> [text |-> 1, len |-> 120, lastPeriod |-> -1]
      [] d = 2 -> [text |-> 2, len |-> 640, lastPeriod |-> 150]
      [] OTHER -> [text |-> d, len |-> 640, lastPeriod |-> 60]

PaperOf(d) == [title |-> d, authors |-> d + 10, year |-> 2000 + d,
               pages |-> 20 + d, link |-> d + 30]

SearchResultOf(d, s) == [paper |-> PaperOf(d), score |-> s, chunkContent |-> ChunkOf(d)]

RECURSIVE NonIncreasing(_)
NonIncreasing(ss) ==
    IF Len(ss) < 2 THEN TRUE
    ELSE ss[1] >= ss[2] /\ NonIncreasing(Tail(ss))

\* What the index can return: distinct chunks (the i-th hit is the chunk of
\* paper i), best score first.
CandidateLists ==
    UNION { { [i \in 1..n |-> SearchResultOf(i, ss[i])] :
                ss \in { p \in [1..n -> Scores] : NonIncreasing(p) } }
            : n \in 0..MaxCand }

\* One entry of the rerank API's results: a 0-based index and a score.
\* Index MaxCand is out of range for every candidate list.
RerankEntries == [index : 0..MaxCand, relevanceScore : Scores]

RerankResponses == UNION { [1..n -> RerankEntries] : n \in 0..MaxResp }

RerankFailures == {"timeout", "unauthorized", "rate limit", "malformed"}

RerankOutcomes ==
    { [ok |-> TRUE, results |-> r, error |-> Undefined] : r \in RerankResponses }
    \cup { [ok |-> FALSE, results |-> <<>>, error |-> e] : e \in RerankFailures }

Answers == {"answer A", "answer B"}

NoResultsAnswer == "I could not find any relevant papers to answer your question. Please try rephrasing or asking about a different topic."

-----------------------------------------------------------------------------
(* CohereReranker *)

\* a || b on numbers: 0 (and undefined, modelled as 0) is falsy
OrElse(a, b) == IF a # 0 THEN a ELSE b

\* Array.prototype.slice(0, k) for k >= 0
Slice0(s, k) == SubSeq(s, 1, Min(k, Len(s)))

WithOriginalScores(candidate) ==
    [paper |-> candidate.paper, chunkContent |-> candidate.chunkContent,
     score |-> candidate.score,
     rerankScore |-> candidate.score, originalScore |-> candidate.score]

\* mutant: the fallback forgets to cut the list to topK
fallbackNoSlice(cands, topK) ==
    [i \in 1..Len(cands) |-> WithOriginalScores(cands[i])]

fallbackToOriginalScores(cands, topK) ==
    LET cut == Slice0(cands, topK)
    IN  [i \in 1..Len(cut) |-> WithOriginalScores(cut[i])]

\* candidates[result.index] is undefined
InvalidIndex(cands, result) == ~(result.index + 1 \in 1..Len(cands))

\* mutant: score keeps the retrieval score
MapResultKeepsScore(cands, result) ==
    LET originalCandidate == cands[result.index + 1]
    IN  [paper |-> originalCandidate.paper,
         chunkContent |-> originalCandidate.chunkContent,
         rerankScore |-> result.relevanceScore,
         originalScore |-> originalCandidate.score,
         score |-> originalCandidate.score]

\* mutant: the paper is always taken from the first candidate
MapResultFirstPaper(cands, result) ==
    LET originalCandidate == cands[result.index + 1]
    IN  [paper |-> cands[1].paper,
         chunkContent |-> originalCandidate.chunkContent,
         rerankScore |-> result.relevanceScore,
         originalScore |-> originalCandidate.score,
         score |-> result.relevanceScore]

MapResult(cands, result) ==
    LET originalCandidate == cands[result.index + 1]
    IN  [paper |-> originalCandidate.paper,
         chunkContent |-> originalCandidate.chunkContent,
         rerankScore |-> result.relevanceScore,
         originalScore |-> originalCandidate.score,
         score |-> result.relevanceScore]

\* Array.prototype.sort((a, b) => b.rerankScore - a.rerankScore): stable
RECURSIVE InsertDesc(_, _)
InsertDesc(sorted, x) ==
    IF sorted = <<>> THEN <<x>>
    ELSE IF sorted[Len(sorted)].rerankScore >= x.rerankScore
         THEN Append(sorted, x)
         ELSE Append(InsertDesc(SubSeq(sorted, 1, Len(sorted) - 1), x), sorted[Len(sorted)])

RECURSIVE SortByRerankScoreFrom(_, _)
SortByRerankScoreFrom(sorted, rest) ==
    IF rest = <<>> THEN sorted
    ELSE SortByRerankScoreFrom(InsertDesc(sorted, Head(rest)), Tail(rest))

\* mutant: the order of the API's results is trusted
SortOmitted(s) == s

SortByRerankScore(s) == SortByRerankScoreFrom(<<>>, s)

\* rerank() up to its await: "return" with a value, or "await" the API call
RerankEnter(enabled, cands, topK) ==
    IF ~enabled THEN [kind |-> "return", value |-> fallbackToOriginalScores(cands, topK)]
    ELSE IF Len(cands) = 0 THEN [kind |-> "return", value |-> <<>>]
    ELSE [kind |-> "await", value |-> <<>>]

\* does the try block of rerank() throw for this outcome of the API call
RerankTryThrows(cands, out) ==
    \/ ~out.ok
    \/ \E j \in 1..Len(out.results) : InvalidIndex(cands, out.results[j])

\* mutant: results with an index out of range are skipped
RerankResumeSkipInvalid(cands, topK, out) ==
    IF ~out.ok
    THEN [kind |-> "return", value |-> fallbackToOriginalScores(cands, topK),
          error |-> Undefined]
    ELSE LET valid == SelectSeq(out.results, LAMBDA e : ~InvalidIndex(cands, e))
         IN  [kind |-> "return",
              value |-> SortByRerankScore([j \in 1..Len(valid) |-> MapResult(cands, valid[j])]),
              error |-> Undefined]

\* mutant: the catch block rethrows instead of falling back
RerankResumeRethrow(cands, topK, out) ==
    IF RerankTryThrows(cands, out)
    THEN [kind |-> "throw", value |-> <<>>, error |-> "Reranking failed"]
    ELSE [kind |-> "return",
          value |-> SortByRerankScore([j \in 1..Len(out.results) |->
                                          MapResult(cands, out.results[j])]),
          error |-> Undefined]

\* rerank() from the API call's outcome to its return value
RerankResume(cands, topK, out) ==
    IF RerankTryThrows(cands, out)
    THEN [kind |-> "return", value |-> fallbackToOriginalScores(cands, topK),
          error |-> Undefined]
    ELSE [kind |-> "return",
          value |-> SortByRerankScore([j \in 1..Len(out.results) |->
                                          MapResult(cands, out.results[j])]),
          error |-> Undefined]

-----------------------------------------------------------------------------
(* ResponseGenerator *)


\* String.prototype.substring(0, n) of a chunk text: its prefix of length n
Substring0(content, n) == [text |-> content.text, len |-> Min(content.len, n)]

\* mutant: citations are numbered from 0
buildContextZeroBased(sources) ==
    [i \in 1..Len(sources) |->
        LET index == i - 1
            source == sources[i]
        IN  [citation |-> index,
             title |-> source.paper.title,
             authors |-> source.paper.authors,
             year |-> source.paper.year,
             content |-> Substring0(source.chunkContent, 500)]]

buildContext(sources) ==
    [i \in 1..Len(sources) |->
        LET index == i - 1
            source == sources[i]
        IN  [citation |-> index + 1,
             title |-> source.paper.title,
             authors |-> source.paper.authors,
             year |-> source.paper.year,
             content |-> Substring0(source.chunkContent, 500)]]

extractExcerpt(content) ==
    LET maxLength == 200
    IN  IF content.len <= maxLength
        THEN [text |-> content.text, len |-> content.len, ellipsis |-> FALSE]
        ELSE IF content.lastPeriod * 10 > maxLength * 7
             THEN [text |-> content.text, len |-> content.lastPeriod + 1, ellipsis |-> FALSE]
             ELSE [text |-> content.text, len |-> maxLength, ellipsis |-> TRUE]

SourceReferenceOf(source) ==
    [title |-> source.paper.title,
     authors |-> source.paper.authors,
     year |-> source.paper.year,
     link |-> source.paper.link,
     pages |-> source.paper.pages,
     relevanceScore |-> OrElse(source.rerankScore, source.score),
     excerpt |-> extractExcerpt(source.chunkContent)]

\* mutant: sources without relevance are left out of the citations
sourceReferencesRelevant(sources) ==
    LET kept == SelectSeq(sources, LAMBDA x : OrElse(x.rerankScore, x.score) > 0)
    IN  [i \in 1..Len(kept) |-> SourceReferenceOf(kept[i])]

sourceReferences(sources) == [i \in 1..Len(sources) |-> SourceReferenceOf(sources[i])]

NoGenerated == [answer |-> "", sources |-> <<>>, modelUsed |-> ""]

\* mutant: no short cut for an empty source list
GenerateEnterNoShortCut(sources) ==
    [kind |-> "await", value |-> NoGenerated, context |-> buildContext(sources)]

\* generate() up to its await: the canned answer, or the chat model call
GenerateEnter(sources) ==
    IF Len(sources) = 0
    THEN [kind |-> "return",
          value |-> [answer |-> NoResultsAnswer, sources |-> <<>>, modelUsed |-> ChatModel],
          context |-> <<>>]
    ELSE [kind |-> "await", value |-> NoGenerated, context |-> buildContext(sources)]

ChatOutcomes ==
    { [ok |-> TRUE, content |-> a] : a \in Answers }
    \cup { [ok |-> FALSE, content |-> "chat model error"] }

\* mutant: a failed chat call is answered with the canned text
GenerateResumeCannedOnFailure(sources, chat) ==
    [kind |-> "return",
     value |-> [answer |-> IF chat.ok THEN chat.content ELSE NoResultsAnswer,
                sources |-> sourceReferences(sources), modelUsed |-> ChatModel],
     error |-> <<>>]

\* generate() from the chat model's outcome to its return or throw
GenerateResume(sources, chat) ==
    IF chat.ok
    THEN [kind |-> "return",
          value |-> [answer |-> chat.content, sources |-> sourceReferences(sources),
                     modelUsed |-> ChatModel],
          error |-> <<>>]
    ELSE [kind |-> "throw", value |-> NoGenerated,
          error |-> <<"Response generation failed", chat.content>>]

-----------------------------------------------------------------------------
(* RAGPipeline.query *)

finalK == OrElse(options.k, RERANK_TOP_K)

withReranking == options.withReranking # "false"

InitialMetadata ==
    [retrievalTimeMs |-> 0, rerankTimeMs |-> Absent, generationTimeMs |-> 0,
     totalTimeMs |-> 0, candidateCount |-> 0, finalCount |-> 0, modelUsed |-> ChatModel]

NoOutcome == [kind |-> "none", answer |-> "", sources |-> <<>>,
              metadata |-> InitialMetadata, error |-> <<>>]

Returned(answer, sources, md) ==
    [kind |-> "returned", answer |-> answer, sources |-> sources,
     metadata |-> md, error |-> <<>>]

\* the catch block of query(): every error is rethrown wrapped
Thrown(error) ==
    [kind |-> "thrown", answer |-> "", sources |-> <<>>,
     metadata |-> InitialMetadata, error |-> <<"RAG pipeline failed">> \o error]

\* mutant: the skip path keeps every candidate
SkipRerankNoCut(cands, k) ==
    [i \in 1..Len(cands) |-> WithOriginalScores(cands[i])]

SkipRerank(cands, k) ==
    LET cut == Slice0(cands, k)
    IN  [i \in 1..Len(cut) |-> WithOriginalScores(cut[i])]

\* mutant: stage 2 is entered whenever reranking is requested
UseRerankerWheneverRequested == withReranking

\* Stage 2 is entered when reranking is requested and the reranker is enabled
UseReranker == withReranking /\ env.cohereEnabled

\* Date.now() differences: the awaited call took no full tick, or one
Delays == {0, 1}

\* rerankTimeMs || 0
RerankTimeOrZero(md) == IF md.rerankTimeMs = Absent THEN 0 ELSE md.rerankTimeMs[1]

\* mutant: the total is the sum of the stage times
TotalTimeMsOfStages(t, start, md) ==
    md.retrievalTimeMs + RerankTimeOrZero(md) + md.generationTimeMs

\* metadata.totalTimeMs = Date.now() - pipelineStartTime
TotalTimeMs(t, start, md) == t - start

\* Stage 3 from the final results on: finalCount, the generate() call and,
\* when generate() returns without awaiting, the rest of query()
Stage3(results, md0, t, log) ==
    LET md == [md0 EXCEPT !.finalCount = Len(results)]
        g == GenerateEnter(results)
    IN  /\ finalResults' = results
        /\ stageStart' = t
        /\ context' = g.context
        /\ IF g.kind = "return"
           THEN LET md1 == [md EXCEPT !.generationTimeMs = t - t,
                                      !.modelUsed = g.value.modelUsed]
                    md2 == [md1 EXCEPT !.totalTimeMs =
                                           TotalTimeMs(t, pipelineStartTime, md1)]
                IN  /\ pc' = "returned"
                    /\ metadata' = md2
                    /\ outcome' = Returned(g.value.answer, g.value.sources, md2)
                    /\ calls' = log \o <<"generate", "generate.done">>
           ELSE /\ pc' = "generating"
                /\ metadata' = md
                /\ outcome' = outcome
                /\ calls' = log \o <<"generate", "chat">>

\* query() from its entry to the await of vectorSearch.search
\* (e: the clock ticks between pipelineStartTime and stage1Start)
QueryStart(e) ==
    /\ pc = "start"
    /\ pc' = "searching"
    /\ pipelineStartTime' = now
    /\ now' = now + e
    /\ stageStart' = now + e
    /\ metadata' = InitialMetadata
    /\ calls' = Append(calls, "search")
    /\ UNCHANGED <<env, options, candidates, finalResults, context, outcome, rr, serviceVars>>

\* mutant: the early exit is never taken
NoCandidatesNever(cands) == FALSE

\* candidates.length === 0: the early exit of query()
NoCandidates(cands) == Len(cands) = 0

\* mutant: the promise of rerank() is not awaited
SuspendsNever(r) == FALSE

\* `await this.reranker.rerank(...)`: query() is suspended while the promise
\* returned by rerank() is pending
Suspends(r) == r.kind = "await"

\* what the call of rerank() has done when it hands back its promise
RerankEnterEvents(r) ==
    IF r.kind = "await" THEN <<"rerank", "cohere">> ELSE <<"rerank", "rerank.done">>

\* vectorSearch.search resolves: empty exit, stage 2 entry or skip
SearchReturns(cands, d) ==
    LET t == now + d
        md1 == [metadata EXCEPT !.retrievalTimeMs = t - stageStart,
                                !.candidateCount = Len(cands)]
        log == Append(calls, "search.done")
    IN  /\ pc = "searching"
        /\ now' = t
        /\ candidates' = cands
        /\ IF NoCandidates(cands)
           THEN /\ pc' = "returned"
                /\ metadata' = md1
                /\ outcome' = Returned(NoResultsAnswer, <<>>,
                                       [md1 EXCEPT !.totalTimeMs =
                                           TotalTimeMs(t, pipelineStartTime, md1)])
                /\ calls' = log
                /\ UNCHANGED <<stageStart, finalResults, context>>
           ELSE IF UseReranker
                THEN LET r == RerankEnter(env.cohereEnabled, cands,
                                          OrElse(finalK, RERANK_TOP_K))
                     IN  IF Suspends(r)
                         THEN /\ pc' = "reranking"
                              /\ stageStart' = t
                              /\ metadata' = md1
                              /\ calls' = log \o RerankEnterEvents(r)
                              /\ UNCHANGED <<finalResults, context, outcome>>
                         ELSE Stage3(r.value, [md1 EXCEPT !.rerankTimeMs = Some(t - t)], t,
                                     log \o RerankEnterEvents(r))
                ELSE Stage3(SkipRerank(cands, finalK), md1, t, log)
        /\ UNCHANGED <<env, options, pipelineStartTime, rr, serviceVars>>

\* what makes search() reject: getStore() cannot connect, or
\* similaritySearchWithScore fails
SearchFailures == {"connection failed", "similarity search failed"}

\* mutant: a failed search is attempted once more
SearchFailsRetry(d) ==
    /\ pc = "searching"
    /\ now' = now + d
    /\ calls' = calls \o <<"search.failed", "search">>
    /\ UNCHANGED <<env, options, pc, pipelineStartTime, stageStart, candidates,
                   finalResults, metadata, context, outcome, rr, serviceVars>>

\* vectorSearch.search rejects: the catch block rethrows
SearchFails(d) ==
    /\ pc = "searching"
    /\ now' = now + d
    /\ pc' = "thrown"
    /\ \E cause \in SearchFailures :
           outcome' = Thrown(<<"Vector search failed", cause>>)
    /\ calls' = Append(calls, "search.failed")
    /\ UNCHANGED <<env, options, pipelineStartTime, stageStart, candidates,
                   finalResults, metadata, context, rr, serviceVars>>

\* the rerank API call settles (resolves or rejects); rerank() returns and
\* query() goes on to stage 3
RerankSettles(out, d) ==
    LET t == now + d
        r == RerankResume(candidates, OrElse(finalK, RERANK_TOP_K), out)
        md1 == [metadata EXCEPT !.rerankTimeMs = Some(t - stageStart)]
        log == calls \o <<IF out.ok THEN "cohere.done" ELSE "cohere.failed", "rerank.done">>
    IN  /\ pc = "reranking"
        /\ now' = t
        /\ IF r.kind = "throw"
           THEN /\ pc' = "thrown"
                /\ outcome' = Thrown(<<r.error>>)
                /\ calls' = calls \o <<IF out.ok THEN "cohere.done" ELSE "cohere.failed",
                                       "rerank.failed">>
                /\ UNCHANGED <<stageStart, finalResults, metadata, context>>
           ELSE Stage3(r.value, md1, t, log)
        /\ UNCHANGED <<env, options, pipelineStartTime, candidates, rr, serviceVars>>

\* the chat model call settles; generate() returns or throws, query() ends
ChatSettles(chat, d) ==
    LET t == now + d
        g == GenerateResume(finalResults, chat)
    IN  /\ pc = "generating"
        /\ now' = t
        /\ IF g.kind = "return"
           THEN LET md1 == [metadata EXCEPT !.generationTimeMs = t - stageStart,
                                            !.modelUsed = g.value.modelUsed]
                    md == [md1 EXCEPT !.totalTimeMs =
                                          TotalTimeMs(t, pipelineStartTime, md1)]
                IN  /\ pc' = "returned"
                    /\ metadata' = md
                    /\ outcome' = Returned(g.value.answer, g.value.sources, md)
                    /\ calls' = calls \o <<"chat.done", "generate.done">>
           ELSE /\ pc' = "thrown"
                /\ metadata' = metadata
                /\ outcome' = Thrown(g.error)
                /\ calls' = calls \o <<"chat.failed", "generate.failed">>
        /\ UNCHANGED <<env, options, pipelineStartTime, stageStart, candidates,
                       finalResults, context, rr, serviceVars>>

\* the external call query() is waiting for is never answered: none of the
\* three calls is given a timeout or an abort signal, so the awaited promise
\* stays pending and query() is never resumed
CallNeverAnswered ==
    /\ pc \in {"searching", "reranking", "generating"}
    /\ pc' = "unanswered"
    /\ calls' = Append(calls, "unanswered")
    /\ UNCHANGED <<env, options, now, pipelineStartTime, stageStart, candidates,
                   finalResults, metadata, context, outcome, rr, serviceVars>>

-----------------------------------------------------------------------------
(* A direct call of CohereReranker.rerank(query, candidates, {topK}) *)

RerankIdle == [pc |-> "idle", candidates |-> <<>>, topK |-> 0,
               out |-> [ok |-> FALSE, results |-> <<>>, error |-> Undefined],
               result |-> <<>>, apiCalls |-> 0]

pipelineVars == <<options, pc, now, pipelineStartTime, stageStart, candidates,
                  finalResults, metadata, context, outcome, calls>>

\* rerank() from its entry to its first return or to the await of the API call
RerankCall(cands, k) ==
    LET r == RerankEnter(env.cohereEnabled, cands, OrElse(k, RERANK_TOP_K))
    IN  /\ rr.pc = "idle"
        /\ rr' = IF r.kind = "return"
                 THEN [rr EXCEPT !.pc = "returned", !.candidates = cands, !.topK = k,
                                 !.result = r.value]
                 ELSE [rr EXCEPT !.pc = "awaiting", !.candidates = cands, !.topK = k,
                                 !.apiCalls = rr.apiCalls + 1]
        /\ UNCHANGED <<env, pipelineVars, serviceVars>>

\* the API call settles and rerank() returns
RerankApiSettles(out) ==
    LET r == RerankResume(rr.candidates, OrElse(rr.topK, RERANK_TOP_K), out)
    IN  /\ rr.pc = "awaiting"
        /\ rr' = [rr EXCEPT !.pc = IF r.kind = "return" THEN "returned" ELSE "thrown",
                            !.out = out, !.result = r.value]
        /\ UNCHANGED <<env, pipelineVars, serviceVars>>

-----------------------------------------------------------------------------
(* Concurrent executions of query() on one RAGPipeline *)

\* VECTOR_SEARCH_K (default of the configuration schema)
VECTOR_SEARCH_K == 20

FinalKOf(o) == OrElse(o.k, RERANK_TOP_K)

CandidatesKOf(o) == OrElse(o.candidatesK, VECTOR_SEARCH_K)

WithRerankingOf(o) == o.withReranking # "false"

\* this.vectorStore: null, or the connection it points to
NoHandle == 0

FreshStore == [handle |-> NoHandle, opened |-> 0]

\* the store after an earlier query has connected
ConnectedStore == [handle |-> 1, opened |-> 1]

Queries == {"q1", "q2"}

\* answers of the collaborators to the concurrent executions
ConcurrentSearchOutcomes ==
    { [ok |-> TRUE, cands |-> c, cause |-> Undefined] :
        c \in { <<>>,
                <<SearchResultOf(1, 1)>>,
                <<SearchResultOf(1, 1), SearchResultOf(2, 0)>> } }
    \cup { [ok |-> FALSE, cands |-> <<>>, cause |-> "similarity search failed"] }

ConcurrentRerankOutcomes ==
    { [ok |-> TRUE, error |-> Undefined,
       results |-> <<[index |-> 1, relevanceScore |-> 1],
                     [index |-> 0, relevanceScore |-> 0]>>],
      [ok |-> TRUE, error |-> Undefined,
       results |-> <<[index |-> 0, relevanceScore |-> 1]>>],
      [ok |-> FALSE, error |-> "timeout", results |-> <<>>] }

ConcurrentChatOutcomes ==
    { [ok |-> TRUE, content |-> "answer A"],
      [ok |-> FALSE, content |-> "chat model error"] }

\* what a run has been answered so far
NoAnswers ==
    [connect |-> "none",
     search |-> [ok |-> FALSE, cands |-> <<>>, cause |-> "none"],
     rerank |-> [ok |-> FALSE, error |-> "none", results |-> <<>>],
     chat |-> [ok |-> FALSE, content |-> "none"]]

\* the local variables of one call of query()
NoFrame ==
    [pipelineStartTime |-> 0, stageStart |-> 0, candidates |-> <<>>,
     finalResults |-> <<>>, metadata |-> InitialMetadata, context |-> <<>>]

\* mutant: the per-query state is kept in fields of the pipeline object
FrameShared(i) == 1

\* every call of query() has its own candidates, finalResults and metadata
FrameOf(i) == i

\* query(q, o) from its entry to the first await inside search(): getStore()
\* awaits getVectorStore() when this.vectorStore is null
EnterQuery(q, o, handle) ==
    [pc |-> IF handle = NoHandle THEN "connecting" ELSE "searching",
     query |-> q, options |-> o,
     searchQuery |-> q, searchK |-> CandidatesKOf(o),
     store |-> handle, got |-> NoAnswers, outcome |-> NoOutcome]

EnterFrame(t) == [NoFrame EXCEPT !.pipelineStartTime = t, !.stageStart = t]

\* finalCount, generate() up to its await and, when it returns at once, the
\* rest of query()
Stage3Of(f, results, md0, t) ==
    LET md == [md0 EXCEPT !.finalCount = Len(results)]
        g == GenerateEnter(results)
        f1 == [f EXCEPT !.finalResults = results, !.stageStart = t,
                        !.context = g.context]
    IN  IF g.kind = "return"
        THEN LET md2 == [md EXCEPT !.generationTimeMs = t - t,
                                   !.modelUsed = g.value.modelUsed,
                                   !.totalTimeMs = t - f.pipelineStartTime]
             IN  [frame |-> [f1 EXCEPT !.metadata = md2], pc |-> "returned",
                  outcome |-> Returned(g.value.answer, g.value.sources, md2)]
        ELSE [frame |-> [f1 EXCEPT !.metadata = md], pc |-> "generating",
              outcome |-> NoOutcome]

\* query() from the resolution of search() to its next await or its return
AfterSearch(o, enabled, f, cands, t) ==
    LET md1 == [f.metadata EXCEPT !.retrievalTimeMs = t - f.stageStart,
                                  !.candidateCount = Len(cands)]
        f1 == [f EXCEPT !.candidates = cands, !.metadata = md1]
    IN  IF NoCandidates(cands)
        THEN [frame |-> f1, pc |-> "returned",
              outcome |-> Returned(NoResultsAnswer, <<>>,
                              [md1 EXCEPT !.totalTimeMs = t - f.pipelineStartTime])]
        ELSE IF WithRerankingOf(o) /\ enabled
             THEN LET r == RerankEnter(enabled, cands,
                                       OrElse(FinalKOf(o), RERANK_TOP_K))
                  IN  IF Suspends(r)
                      THEN [frame |-> [f1 EXCEPT !.stageStart = t],
                            pc |-> "reranking", outcome |-> NoOutcome]
                      ELSE Stage3Of(f1, r.value,
                                    [md1 EXCEPT !.rerankTimeMs = Some(t - t)], t)
             ELSE Stage3Of(f1, SkipRerank(cands, FinalKOf(o)), md1, t)

\* query() from the settling of the rerank API call on
AfterRerank(o, f, out, t) ==
    LET r == RerankResume(f.candidates, OrElse(FinalKOf(o), RERANK_TOP_K), out)
        md1 == [f.metadata EXCEPT !.rerankTimeMs = Some(t - f.stageStart)]
    IN  IF r.kind = "throw"
        THEN [frame |-> f, pc |-> "thrown", outcome |-> Thrown(<<r.error>>)]
        ELSE Stage3Of(f, r.value, md1, t)

\* query() from the settling of the chat model call on
AfterChat(f, chat, t) ==
    LET g == GenerateResume(f.finalResults, chat)
    IN  IF g.kind = "return"
        THEN LET md == [f.metadata EXCEPT !.generationTimeMs = t - f.stageStart,
                                          !.modelUsed = g.value.modelUsed,
                                          !.totalTimeMs = t - f.pipelineStartTime]
             IN  [frame |-> [f EXCEPT !.metadata = md], pc |-> "returned",
                  outcome |-> Returned(g.value.answer, g.value.sources, md)]
        ELSE [frame |-> f, pc |-> "thrown", outcome |-> Thrown(g.error)]

-----------------------------------------------------------------------------
(* RAGPipeline.queryWithComparison *)

\* an average as computed by reduce(...) / length: sum over n (NaN when n = 0)
AvgOf(sum, n) == [sum |-> sum, n |-> n]

RECURSIVE SumRelevance(_)
SumRelevance(sources) ==
    IF sources = <<>> THEN 0
    ELSE Head(sources).relevanceScore + SumRelevance(Tail(sources))

\* sources[0]?.title (0 stands for undefined)
FirstTitle(sources) == IF Len(sources) = 0 THEN 0 ELSE sources[1].title

ImprovementOf(with, without) ==
    [latencyDiff |-> with.metadata.totalTimeMs - without.metadata.totalTimeMs,
     sourcesChanged |-> FirstTitle(with.sources) # FirstTitle(without.sources),
     avgScoreWith |-> AvgOf(SumRelevance(with.sources), Len(with.sources)),
     avgScoreWithout |-> AvgOf(SumRelevance(without.sources), Len(without.sources))]

NoComparison ==
    [withReranking |-> NoOutcome, withoutReranking |-> NoOutcome,
     improvement |-> ImprovementOf(NoOutcome, NoOutcome)]

ComparisonOf(with, without) ==
    [withReranking |-> with, withoutReranking |-> without,
     improvement |-> ImprovementOf(with, without)]

\* status is the HTTP status of POST /query/compare (0: no response yet)
CompareIdle == [pc |-> "idle", query |-> "", result |-> NoComparison, error |-> <<>>,
                status |-> 0]

\* mutant: both runs are started with reranking on
ComparisonOptionsBothOn ==
    <<[k |-> 0, candidatesK |-> 0, withReranking |-> "true"],
      [k |-> 0, candidatesK |-> 0, withReranking |-> "true"]>>

\* the options of the two runs: {withReranking: true}, {withReranking: false}
ComparisonOptions ==
    <<[k |-> 0, candidatesK |-> 0, withReranking |-> "true"],
      [k |-> 0, candidatesK |-> 0, withReranking |-> "false"]>>

\* mutant: the comparison waits for both runs and returns what it has
JoinAllSettled(c, rs) ==
    IF c.pc # "running" THEN c
    ELSE IF \A i \in 1..Len(rs) : rs[i].pc \in {"returned", "thrown"}
         THEN [c EXCEPT !.pc = "returned", !.status = 200,
                        !.result = ComparisonOf(rs[1].outcome, rs[2].outcome)]
         ELSE c

\* await Promise.all([...]): rejects with the first rejection, resolves when
\* both runs have resolved; the rest of queryWithComparison and of the route
\* follows at once (res.json, or errorHandler with status 500)
JoinAll(c, rs) ==
    IF c.pc # "running" THEN c
    ELSE IF \E i \in 1..Len(rs) : rs[i].pc = "thrown"
         THEN LET i == CHOOSE j \in 1..Len(rs) : rs[j].pc = "thrown"
              IN  [c EXCEPT !.pc = "thrown", !.status = 500,
                            !.error = rs[i].outcome.error]
         ELSE IF \A i \in 1..Len(rs) : rs[i].pc = "returned"
              THEN [c EXCEPT !.pc = "returned", !.status = 200,
                             !.result = ComparisonOf(rs[1].outcome, rs[2].outcome)]
              ELSE c

queryVars == <<options, pc, pipelineStartTime, stageStart, candidates,
               finalResults, metadata, context, outcome, calls>>

\* queryWithComparison(q) up to its await: both calls of query() run to their
\* first await, one after the other, before anything else happens
CompareStart(q) ==
    /\ cmp.pc = "idle"
    /\ runs = <<>>
    /\ runs' = <<EnterQuery(q, ComparisonOptions[1], store.handle),
                 EnterQuery(q, ComparisonOptions[2], store.handle)>>
    /\ frames' = <<EnterFrame(now), EnterFrame(now)>>
    /\ cmp' = [CompareIdle EXCEPT !.pc = "running", !.query = q]
    /\ UNCHANGED <<env, now, queryVars, rr, store, batch, health, vsearch>>

\* two members of one batch: queries.map(q => pipeline.query(q, {k, withReranking}))
\* starts them in the same way, with the options of the request
PairStart(q1, q2, o) ==
    /\ cmp.pc = "idle"
    /\ runs = <<>>
    /\ runs' = <<EnterQuery(q1, o, store.handle), EnterQuery(q2, o, store.handle)>>
    /\ frames' = <<EnterFrame(now), EnterFrame(now)>>
    /\ UNCHANGED <<env, now, queryVars, rr, cmp, store, batch, health, vsearch>>

\* run i goes on with the result res of its resumed coroutine
Resume(i, res, got) ==
    LET rs == [runs EXCEPT ![i] = [@ EXCEPT !.pc = res.pc, !.outcome = res.outcome,
                                            !.got = got]]
    IN  /\ runs' = rs
        /\ frames' = [frames EXCEPT ![FrameOf(i)] = res.frame]
        /\ cmp' = JoinAll(cmp, rs)

\* getVectorStore() of run i settles: getStore() assigns this.vectorStore and
\* returns it, or search() rejects
ConnectSettles(i, ok, d) ==
    /\ i \in 1..Len(runs)
    /\ runs[i].pc = "connecting"
    /\ now' = now + d
    /\ IF ok
       THEN LET h == store.opened + 1
            IN  /\ store' = [handle |-> h, opened |-> h]
                /\ runs' = [runs EXCEPT ![i] = [@ EXCEPT !.pc = "searching", !.store = h,
                                                        !.got.connect = "connected"]]
                /\ UNCHANGED <<frames, cmp>>
       ELSE /\ store' = store
            /\ Resume(i, [frame |-> frames[FrameOf(i)], pc |-> "thrown",
                          outcome |-> Thrown(<<"Vector search failed",
                                               "connection failed">>)],
                      [runs[i].got EXCEPT !.connect = "failed"])
    /\ UNCHANGED <<env, queryVars, rr, batch, health, vsearch>>

\* similaritySearchWithScore of run i settles
RunSearchSettles(i, ans, d) ==
    /\ i \in 1..Len(runs)
    /\ runs[i].pc = "searching"
    /\ now' = now + d
    /\ Resume(i,
              IF ans.ok
              THEN AfterSearch(runs[i].options, env.cohereEnabled,
                               frames[FrameOf(i)], ans.cands, now + d)
              ELSE [frame |-> frames[FrameOf(i)], pc |-> "thrown",
                    outcome |-> Thrown(<<"Vector search failed", ans.cause>>)],
              [runs[i].got EXCEPT !.search = ans])
    /\ UNCHANGED <<env, queryVars, rr, store, batch, health, vsearch>>

\* the rerank API call of run i settles
RunRerankSettles(i, out, d) ==
    /\ i \in 1..Len(runs)
    /\ runs[i].pc = "reranking"
    /\ now' = now + d
    /\ Resume(i, AfterRerank(runs[i].options, frames[FrameOf(i)], out, now + d),
              [runs[i].got EXCEPT !.rerank = out])
    /\ UNCHANGED <<env, queryVars, rr, store, batch, health, vsearch>>

\* the chat model call of run i settles
RunChatSettles(i, chat, d) ==
    /\ i \in 1..Len(runs)
    /\ runs[i].pc = "generating"
    /\ now' = now + d
    /\ Resume(i, AfterChat(frames[FrameOf(i)], chat, now + d),
              [runs[i].got EXCEPT !.chat = chat])
    /\ UNCHANGED <<env, queryVars, rr, store, batch, health, vsearch>>

-----------------------------------------------------------------------------
(* POST /query/batch *)

\* z.array(...).max(10)
MaxBatch == 10

\* the text of the i-th query of a request
QueryTexts == <<"q1", "q2", "q3", "q4", "q5", "q6", "q7", "q8", "q9", "q10", "q11">>

\* request bodies: n queries, all non-empty or with one empty string among them
BatchRequests ==
    UNION { { [i \in 1..n |-> QueryTexts[i]] }
            \cup { [i \in 1..n |-> IF i = j THEN "" ELSE QueryTexts[i]] : j \in 1..n }
          : n \in 0..(MaxBatch + 1) }

\* metadata.totalTimeMs of a member's response
BatchTimes == {1, 2}

\* mutant: the array has no upper limit
BatchValidNoLimit(qs) == \A i \in 1..Len(qs) : qs[i] # ""

\* batchSchema.safeParse(req.body).success, as far as queries is concerned
BatchValid(qs) ==
    /\ Len(qs) <= MaxBatch
    /\ \A i \in 1..Len(qs) : qs[i] # ""

\* mutant: the largest of the members' times (they run concurrently)
LargestTotalTime(results) ==
    IF results = <<>> THEN 0
    ELSE CHOOSE t \in {results[i].totalTimeMs : i \in 1..Len(results)} :
             \A i \in 1..Len(results) : results[i].totalTimeMs <= t

\* results.reduce((sum, r) => sum + r.metadata.totalTimeMs, 0)
RECURSIVE SumTotalTime(_)
SumTotalTime(results) ==
    IF results = <<>> THEN 0
    ELSE Head(results).totalTimeMs + SumTotalTime(Tail(results))

NoBatchResponse == [queries |-> 0, results |-> <<>>, totalTimeMs |-> 0]

\* status is the HTTP status (0: no response yet); started counts the calls
\* of pipeline.query
BatchIdle == [pc |-> "idle", queries |-> <<>>, status |-> 0, started |-> 0,
              members |-> <<>>, response |-> NoBatchResponse]

\* res.json({queries, results, totalTimeMs})
BatchResponseOf(qs, results) ==
    [queries |-> Len(qs), results |-> results, totalTimeMs |-> SumTotalTime(results)]

RECURSIVE InsertByTime(_, _)
InsertByTime(sorted, x) ==
    IF sorted = <<>> THEN <<x>>
    ELSE IF sorted[Len(sorted)].totalTimeMs <= x.totalTimeMs
         THEN Append(sorted, x)
         ELSE Append(InsertByTime(SubSeq(sorted, 1, Len(sorted) - 1), x),
                     sorted[Len(sorted)])

RECURSIVE ByArrivalFrom(_, _)
ByArrivalFrom(sorted, rest) ==
    IF rest = <<>> THEN sorted
    ELSE ByArrivalFrom(InsertByTime(sorted, Head(rest)), Tail(rest))

\* mutant: the responses are collected as they arrive (all members start at
\* the same instant, so the shorter totalTimeMs arrives first)
PromiseAllValuesByArrival(ms) == ByArrivalFrom(<<>>, ms)

\* the value of Promise.all: the i-th element is the value of the i-th promise
PromiseAllValues(ms) == ms

\* await Promise.all(...) and the rest of the handler
BatchJoin(b, ms) ==
    IF \E i \in 1..Len(ms) : ms[i].pc = "thrown"
    THEN [b EXCEPT !.pc = "responded", !.status = 500, !.members = ms]
    ELSE IF \A i \in 1..Len(ms) : ms[i].pc = "returned"
         THEN [b EXCEPT !.pc = "responded", !.status = 200, !.members = ms,
                        !.response = BatchResponseOf(b.queries, PromiseAllValues(ms))]
         ELSE [b EXCEPT !.members = ms]

\* the handler from its entry to the 400 error or to the await of Promise.all
BatchRequest(qs) ==
    /\ batch.pc = "idle"
    /\ batch' = IF ~BatchValid(qs)
                THEN [batch EXCEPT !.pc = "responded", !.queries = qs, !.status = 400]
                ELSE BatchJoin([batch EXCEPT !.pc = "running", !.queries = qs,
                                             !.started = Len(qs)],
                               [i \in 1..Len(qs) |->
                                   [pc |-> "pending", query |-> qs[i], totalTimeMs |-> 0]])
    /\ UNCHANGED <<env, pipelineVars, rr, runs, frames, cmp, store, health, vsearch>>

\* pipeline.query of member i resolves with a response or rejects
BatchMemberSettles(i, ok, t) ==
    /\ batch.pc = "running"
    /\ i \in 1..Len(batch.members)
    /\ batch.members[i].pc = "pending"
    /\ batch' = BatchJoin(batch,
                   [batch.members EXCEPT ![i] =
                       IF ok THEN [@ EXCEPT !.pc = "returned", !.totalTimeMs = t]
                       ELSE [@ EXCEPT !.pc = "thrown"]])
    /\ UNCHANGED <<env, pipelineVars, rr, runs, frames, cmp, store, health, vsearch>>

-----------------------------------------------------------------------------
(* RAGPipeline.healthCheck and GET /health *)

\* what search('test', {k: 1}) can resolve with: no hit or one hit
HealthTestResults == { c \in CandidateLists : Len(c) <= 1 }

PendingCheck == [pc |-> "pending", ok |-> FALSE, caught |-> Undefined, hits |-> 0]

\* a health check of one component has returned ok; caught is the error its
\* catch block has swallowed, if any
CheckDone(ok, caught, hits) == [pc |-> "done", ok |-> ok, caught |-> caught, hits |-> hits]

NoHealth == [vectorSearch |-> FALSE, reranker |-> FALSE, overall |-> FALSE]

\* status is the HTTP status of GET /health (0: no response yet)
HealthIdle == [pc |-> "idle", vs |-> PendingCheck, rk |-> PendingCheck,
               result |-> NoHealth, status |-> 0, timestamp |-> 0]

\* mutant: the pipeline is healthy when both components are
OverallBoth(vectorSearchOk, rerankerOk) == vectorSearchOk /\ rerankerOk

\* const overall = vectorSearchOk
Overall(vectorSearchOk, rerankerOk) == vectorSearchOk

\* await Promise.all([...]) of healthCheck(), the rest of healthCheck() and of
\* the route: both component checks catch their own errors, so the promise
\* resolves once both have returned
HealthJoin(h, t) ==
    IF h.vs.pc = "done" /\ h.rk.pc = "done"
    THEN LET overall == Overall(h.vs.ok, h.rk.ok)
         IN  [h EXCEPT !.pc = "done",
                       !.result = [vectorSearch |-> h.vs.ok, reranker |-> h.rk.ok,
                                   overall |-> overall],
                       !.status = IF overall THEN 200 ELSE 503,
                       !.timestamp = t]
    ELSE h

\* healthCheck() up to its await: vectorSearch.healthCheck() runs to its first
\* await, reranker.healthCheck() returns false at once when it is disabled
HealthStart ==
    /\ health.pc = "idle"
    /\ health' = [health EXCEPT
                    !.pc = "running",
                    !.vs = [PendingCheck EXCEPT
                               !.pc = IF store.handle = NoHandle THEN "connecting"
                                      ELSE "searching"],
                    !.rk = IF env.cohereEnabled
                           THEN [PendingCheck EXCEPT !.pc = "calling"]
                           ELSE CheckDone(FALSE, Undefined, 0)]
    /\ UNCHANGED <<env, pipelineVars, rr, runs, frames, cmp, store, batch, vsearch>>

\* getVectorStore() of the health check settles
HealthConnectSettles(ok, d) ==
    /\ health.pc = "running"
    /\ health.vs.pc = "connecting"
    /\ now' = now + d
    /\ IF ok
       THEN /\ store' = [handle |-> store.opened + 1, opened |-> store.opened + 1]
            /\ health' = [health EXCEPT !.vs.pc = "searching"]
       ELSE /\ store' = store
            /\ health' = HealthJoin([health EXCEPT
                                       !.vs = CheckDone(FALSE, "connection failed", 0)],
                                    now + d)
    /\ UNCHANGED <<env, queryVars, rr, runs, frames, cmp, batch, vsearch>>

\* search('test', {k: 1}) of the health check settles
HealthSearchSettles(ans, d) ==
    /\ health.pc = "running"
    /\ health.vs.pc = "searching"
    /\ now' = now + d
    /\ health' = HealthJoin([health EXCEPT
                               !.vs = IF ans.ok
                                      THEN CheckDone(Len(ans.cands) > 0, Undefined,
                                                     Len(ans.cands))
                                      ELSE CheckDone(FALSE, ans.cause, 0)],
                            now + d)
    /\ UNCHANGED <<env, queryVars, rr, runs, frames, cmp, store, batch, vsearch>>

\* the test call of the rerank API settles
HealthRerankSettles(out, d) ==
    /\ health.pc = "running"
    /\ health.rk.pc = "calling"
    /\ now' = now + d
    /\ health' = HealthJoin([health EXCEPT
                               !.rk = IF out.ok THEN CheckDone(TRUE, Undefined, 0)
                                      ELSE CheckDone(FALSE, out.error, 0)],
                            now + d)
    /\ UNCHANGED <<env, queryVars, rr, runs, frames, cmp, store, batch, vsearch>>

-----------------------------------------------------------------------------
(* A direct call of VectorSearchService.search(query, {k}) *)

\* distances and scores are counted in quarters: ScoreUnit stands for 1
ScoreUnit == 4

Max(a, b) == IF a > b THEN a ELSE b

\* raw distances the index can report, from -1 to 2
Distances == (0 - ScoreUnit)..(2 * ScoreUnit)

\* what similaritySearchWithScore resolves with: the i-th hit is the chunk of
\* paper i, at some raw distance
RawHits == UNION { [1..n -> Distances] : n \in 0..MaxCand }

\* mutant: the similarity is returned as computed
normalizeScoreUnclamped(distance) == ScoreUnit - distance

normalizeScore(distance) ==
    LET similarity == ScoreUnit - distance
    IN  Max(0, Min(ScoreUnit, similarity))

\* results.map(([doc, score]) => ({paper, score: normalizeScore(score), chunkContent}))
SearchResultsOf(raw) ==
    [i \in 1..Len(raw) |->
        [paper |-> PaperOf(i), score |-> normalizeScore(raw[i]), chunkContent |-> ChunkOf(i)]]

SearchIdle == [pc |-> "idle", k |-> 0, raw |-> <<>>, results |-> <<>>, error |-> <<>>]

\* search() from its entry to the await of similaritySearchWithScore
VectorSearchCall(k) ==
    /\ vsearch.pc = "idle"
    /\ vsearch' = [vsearch EXCEPT !.pc = "awaiting", !.k = OrElse(k, VECTOR_SEARCH_K)]
    /\ UNCHANGED <<env, pipelineVars, rr, runs, frames, cmp, store, batch, health>>

\* the index answers with at most k hits and search() returns
VectorSearchSettles(raw) ==
    /\ vsearch.pc = "awaiting"
    /\ Len(raw) <= vsearch.k
    /\ vsearch' = [vsearch EXCEPT !.pc = "returned", !.raw = raw,
                                  !.results = SearchResultsOf(raw)]
    /\ UNCHANGED <<env, pipelineVars, rr, runs, frames, cmp, store, batch, health>>

\* getStore() or the index call rejects and search() rethrows
VectorSearchRejects(cause) ==
    /\ vsearch.pc = "awaiting"
    /\ vsearch' = [vsearch EXCEPT !.pc = "thrown",
                                  !.error = <<"Vector search failed", cause>>]
    /\ UNCHANGED <<env, pipelineVars, rr, runs, frames, cmp, store, batch, health>>

-----------------------------------------------------------------------------
(* Specifications *)

\* everything but the connection to the vector index
InitPipeline ==
    /\ env \in [cohereEnabled : BOOLEAN]
    /\ options \in [k : 0..MaxK, withReranking : {"undefined", "true", "false"}]
    /\ pc = "start"
    /\ now = 0
    /\ pipelineStartTime = 0
    /\ stageStart = 0
    /\ candidates = <<>>
    /\ finalResults = <<>>
    /\ metadata = InitialMetadata
    /\ context = <<>>
    /\ outcome = NoOutcome
    /\ calls = <<>>
    /\ rr = RerankIdle
    /\ runs = <<>>
    /\ frames = <<>>
    /\ cmp = CompareIdle
    /\ batch = BatchIdle
    /\ health = HealthIdle
    /\ vsearch = SearchIdle

Init == InitPipeline /\ store = FreshStore

Next ==
    \/ \E e \in Delays : QueryStart(e)
    \/ \E cands \in CandidateLists, d \in Delays : SearchReturns(cands, d)
    \/ \E d \in Delays : SearchFails(d)
    \/ \E out \in RerankOutcomes, d \in Delays : RerankSettles(out, d)
    \/ \E chat \in ChatOutcomes, d \in Delays : ChatSettles(chat, d)

Spec == Init /\ [][Next]_vars

\* a query whose collaborators may stay silent; every step that can be taken
\* is eventually taken
NextUnanswered == Next \/ CallNeverAnswered

SpecUnanswered == Init /\ [][NextUnanswered]_vars /\ WF_vars(NextUnanswered)

NextRerank ==
    \/ \E cands \in CandidateLists, k \in 0..MaxK : RerankCall(cands, k)
    \/ \E out \in RerankOutcomes : RerankApiSettles(out)

InitRerank == Init /\ options = [k |-> 0, withReranking |-> "undefined"]

SpecRerank == InitRerank /\ [][NextRerank]_vars

RunIds == 1..2

\* the request options of a batch whose members run concurrently
PairOptions ==
    { [k |-> 1, candidatesK |-> 0, withReranking |-> w] : w \in {"undefined", "false"} }

NextConcurrent ==
    \/ \E q \in Queries : CompareStart(q)
    \/ \E o \in PairOptions : PairStart("q1", "q2", o)
    \/ \E i \in RunIds, ok \in BOOLEAN, d \in Delays : ConnectSettles(i, ok, d)
    \/ \E i \in RunIds, ans \in ConcurrentSearchOutcomes, d \in Delays :
          RunSearchSettles(i, ans, d)
    \/ \E i \in RunIds, out \in ConcurrentRerankOutcomes, d \in Delays :
          RunRerankSettles(i, out, d)
    \/ \E i \in RunIds, chat \in ConcurrentChatOutcomes, d \in Delays :
          RunChatSettles(i, chat, d)

\* a fresh pipeline, or one that has served a query before
InitConcurrent ==
    /\ InitPipeline
    /\ options = [k |-> 0, withReranking |-> "undefined"]
    /\ store \in {FreshStore, ConnectedStore}

SpecConcurrent == InitConcurrent /\ [][NextConcurrent]_vars

NextBatch ==
    \/ \E qs \in BatchRequests : BatchRequest(qs)
    \/ \E i \in 1..MaxBatch, ok \in BOOLEAN, t \in BatchTimes : BatchMemberSettles(i, ok, t)

\* the route reads neither the options of a single query nor the reranker's
\* configuration
InitBatch == InitRerank /\ env = [cohereEnabled |-> TRUE]

SpecBatch == InitBatch /\ [][NextBatch]_vars

HealthSearchOutcomes ==
    { [ok |-> TRUE, cands |-> c, cause |-> Undefined] : c \in HealthTestResults }
    \cup { [ok |-> FALSE, cands |-> <<>>, cause |-> "similarity search failed"] }

HealthRerankOutcomes ==
    { [ok |-> TRUE, error |-> Undefined] }
    \cup { [ok |-> FALSE, error |-> e] : e \in RerankFailures }

NextHealth ==
    \/ HealthStart
    \/ \E ok \in BOOLEAN, d \in Delays : HealthConnectSettles(ok, d)
    \/ \E ans \in HealthSearchOutcomes, d \in Delays : HealthSearchSettles(ans, d)
    \/ \E out \in HealthRerankOutcomes, d \in Delays : HealthRerankSettles(out, d)

SpecHealth == InitConcurrent /\ [][NextHealth]_vars

NextSearch ==
    \/ \E k \in 0..MaxK : VectorSearchCall(k)
    \/ \E raw \in RawHits : VectorSearchSettles(raw)
    \/ \E cause \in SearchFailures : VectorSearchRejects(cause)

SpecSearch == InitBatch /\ [][NextSearch]_vars

-----------------------------------------------------------------------------
(* Properties of CohereReranker.rerank, checked under SpecRerank *)

\* the topK rerank() works with (options.topK || env.RERANK_TOP_K)
rrTopK == OrElse(rr.topK, RERANK_TOP_K)

rrSettled == rr.pc \in {"returned", "thrown"}

rrApiFailed == rrSettled /\ rr.apiCalls > 0 /\ ~rr.out.ok

rrApiSucceeded == rrSettled /\ rr.apiCalls > 0 /\ rr.out.ok

rrUnconfigured == rrSettled /\ ~env.cohereEnabled

rrIndexOutOfRange ==
    rrApiSucceeded /\ \E j \in 1..Len(rr.out.results) :
                          ~(rr.out.results[j].index \in 0..(Len(rr.candidates) - 1))

\* result is the first min(topK, len) candidates in input order, each with
\* rerankScore = originalScore = its retrieval score
IsFallbackProjection(result, cands, topK) ==
    /\ Len(result) = Min(topK, Len(cands))
    /\ \A i \in 1..Len(result) :
          /\ result[i].paper = cands[i].paper
          /\ result[i].chunkContent = cands[i].chunkContent
          /\ result[i].rerankScore = cands[i].score
          /\ result[i].originalScore = cands[i].score

\* C1: when the reranker is unconfigured or the external scoring call fails
\* (timeout, auth failure, rate limit, malformed response), rerank does not
\* throw and returns the first min(topK, len(candidates)) candidates in input
\* order with rerankScore = originalScore = the candidate's retrieval score.
C1_FallbackOnDegradedPath ==
    (rrApiFailed \/ rrUnconfigured) =>
        /\ rr.pc = "returned"
        /\ IsFallbackProjection(rr.result, rr.candidates, rrTopK)

\* two candidates, topK = 1, the API call timed out, one item came back
C1_Witness ==
    /\ rrApiFailed
    /\ rr.out.error = "timeout"
    /\ Len(rr.candidates) = 2
    /\ rr.topK = 1
    /\ rr.pc = "returned"
    /\ Len(rr.result) = 1

\* C2: whenever the external scoring call succeeds, the list rerank returns
\* is sorted by rerankScore in non-increasing order, whatever order the call
\* returned its results in.
C2_SortedByRerankScore ==
    rrApiSucceeded =>
        /\ rr.pc = "returned"
        /\ \A i \in 1..(Len(rr.result) - 1) :
              rr.result[i].rerankScore >= rr.result[i + 1].rerankScore

\* the API answered with two valid results in ascending score order
C2_Witness ==
    /\ rrApiSucceeded
    /\ ~rrIndexOutOfRange
    /\ Len(rr.out.results) = 2
    /\ rr.out.results[1].relevanceScore < rr.out.results[2].relevanceScore
    /\ rr.pc = "returned"
    /\ Len(rr.result) = 2

\* C3 as stated: a result whose index lies outside [0, len(candidates))
\* makes rerank raise an error to its caller.
C3_OutOfRangeIndexThrows ==
    rrIndexOutOfRange => rr.pc = "thrown"

\* C3 amended: a result whose index lies outside [0, len(candidates)) makes
\* rerank discard all results of the call and return the fallback projection
\* (the error is raised and caught inside rerank); the offending entry is
\* neither skipped nor mapped to some candidate.
C3_OutOfRangeIndexFallsBack ==
    rrIndexOutOfRange =>
        /\ rr.pc = "returned"
        /\ IsFallbackProjection(rr.result, rr.candidates, rrTopK)

\* the API answered with one valid and one out-of-range result
C3_Witness ==
    /\ rrIndexOutOfRange
    /\ Len(rr.out.results) = 2
    /\ rr.out.results[1].index = 0
    /\ rr.out.results[1].relevanceScore # rr.candidates[1].score
    /\ rr.out.results[2].index = Len(rr.candidates)
    /\ rr.pc = "returned"

-----------------------------------------------------------------------------
(* Properties of RAGPipeline.query and ResponseGenerator.generate, checked  *)
(* under Spec                                                               *)

Has(log, e) == \E i \in 1..Len(log) : log[i] = e

\* position of the first e in log, 0 when there is none
Pos(log, e) == IF Has(log, e) THEN CHOOSE i \in 1..Len(log) :
                                      log[i] = e /\ \A j \in 1..(i - 1) : log[j] # e
               ELSE 0

\* a happened, and before b
Before(log, a, b) == Pos(log, a) > 0 /\ Pos(log, a) < Pos(log, b)

SearchReturnedEmpty == Has(calls, "search.done") /\ candidates = <<>>

\* C4: when retrieval returns no candidates, query returns the canned
\* no-results answer with sources = [] and metadata.candidateCount = 0, and
\* neither rerank nor generate is called.
C4_EmptyCandidatesExit ==
    SearchReturnedEmpty =>
        /\ pc = "returned"
        /\ outcome.kind = "returned"
        /\ outcome.answer = NoResultsAnswer
        /\ outcome.sources = <<>>
        /\ outcome.metadata.candidateCount = 0
        /\ ~Has(calls, "rerank") /\ ~Has(calls, "cohere")
        /\ ~Has(calls, "generate") /\ ~Has(calls, "chat")

\* retrieval came back empty with the reranker configured and requested
C4_Witness ==
    /\ SearchReturnedEmpty
    /\ env.cohereEnabled
    /\ options.withReranking = "true"
    /\ pc = "returned"

\* C5: the stages of one query run strictly in sequence: rerank starts only
\* after retrieval has completed, generation only after retrieval and rerank
\* (when made) have completed.
C5_StagesInSequence ==
    /\ Has(calls, "rerank") => Before(calls, "search.done", "rerank")
    /\ Has(calls, "cohere") => Before(calls, "rerank", "cohere")
    /\ Has(calls, "generate") =>
          /\ Before(calls, "search.done", "generate")
          /\ Has(calls, "rerank") =>
                /\ Before(calls, "rerank.done", "generate")
                /\ Has(calls, "cohere") =>
                      (Before(calls, "cohere.done", "rerank.done")
                       \/ Before(calls, "cohere.failed", "rerank.done"))
    /\ Has(calls, "chat") => Before(calls, "generate", "chat")

\* a query that went through all three stages
C5_Witness ==
    /\ pc = "returned"
    /\ Has(calls, "cohere.done")
    /\ Has(calls, "chat.done")

RerankCallFailed == Has(calls, "cohere.failed")

\* sources are the first min(k, n) candidates in retrieval order, each with
\* its retrieval score as relevanceScore
SourcesAreTopCandidates(sources, cands, k) ==
    /\ Len(sources) = Min(k, Len(cands))
    /\ \A i \in 1..Len(sources) :
          /\ sources[i].title = cands[i].paper.title
          /\ sources[i].link = cands[i].paper.link
          /\ sources[i].excerpt.text = cands[i].chunkContent.text
          /\ sources[i].relevanceScore = cands[i].score

\* C6: with reranking requested, the reranker configured and candidates
\* found, a failure of the external rerank call does not make query throw:
\* the query goes on with the fallback ranking, metadata.rerankTimeMs is
\* defined, and the response it returns has the first min(finalK, n)
\* candidates in retrieval order as sources, relevanceScore = retrieval score.
\* (Only a failure of the later generation call makes such a query throw.)
C6_RerankFailureDegrades ==
    RerankCallFailed =>
        /\ pc \in {"generating", "returned", "thrown"}
        /\ pc = "thrown" => Has(calls, "chat.failed")
        /\ metadata.rerankTimeMs # Absent
        /\ IsFallbackProjection(finalResults, candidates, finalK)
        /\ pc = "returned" =>
              /\ outcome.kind = "returned"
              /\ outcome.metadata.rerankTimeMs # Absent
              /\ SourcesAreTopCandidates(outcome.sources, candidates, finalK)

\* two candidates, k = 1, the rerank call failed, a response came back
C6_Witness ==
    /\ RerankCallFailed
    /\ options.withReranking # "false"
    /\ env.cohereEnabled
    /\ Len(candidates) = 2
    /\ options.k = 1
    /\ pc = "returned"
    /\ Len(outcome.sources) = 1

\* C7: with withReranking = false and a non-empty candidate list, the
\* response's sources are the first min(finalK, n) candidates in retrieval
\* order with their retrieval scores, metadata.finalCount = min(finalK, n),
\* and the external scoring call is never made.
C7_RerankingSwitchedOff ==
    (options.withReranking = "false" /\ Has(calls, "search.done") /\ Len(candidates) > 0) =>
        /\ ~Has(calls, "rerank") /\ ~Has(calls, "cohere")
        /\ outcome.kind = "returned" =>
              /\ SourcesAreTopCandidates(outcome.sources, candidates, finalK)
              /\ outcome.metadata.finalCount = Min(finalK, Len(candidates))

\* reranker configured but switched off by the caller; two candidates, k = 1
C7_Witness ==
    /\ options.withReranking = "false"
    /\ env.cohereEnabled
    /\ Len(candidates) = 2
    /\ options.k = 1
    /\ outcome.kind = "returned"
    /\ Len(outcome.sources) = 1

GenerateCalledWithNoSources == Has(calls, "generate") /\ finalResults = <<>>

\* C8: generate called with an empty sources list makes no chat model call
\* and returns the fixed no-relevant-papers answer with no sources.
C8_EmptySourcesShortCut ==
    GenerateCalledWithNoSources =>
        /\ ~Has(calls, "chat")
        /\ Has(calls, "generate.done")
        /\ outcome.kind = "returned"
        /\ outcome.answer = NoResultsAnswer
        /\ outcome.sources = <<>>

\* candidates were found, the reranker returned an empty list
C8_Witness ==
    /\ GenerateCalledWithNoSources
    /\ Len(candidates) > 0
    /\ Has(calls, "cohere.done")
    /\ pc = "returned"

\* C9: for a non-empty sources list, context entry [n] describes sources[n-1]
\* and the n-th SourceReference is projected from sources[n-1], whatever the
\* sources hold and whatever the generation call returns.
C9_CitationsFollowSourceOrder ==
    Has(calls, "chat") =>
        /\ Len(context) = Len(finalResults)
        /\ \A n \in 1..Len(finalResults) :
              /\ context[n].citation = n
              /\ context[n].title = finalResults[n].paper.title
              /\ context[n].authors = finalResults[n].paper.authors
              /\ context[n].year = finalResults[n].paper.year
              /\ context[n].content.text = finalResults[n].chunkContent.text
        /\ outcome.kind = "returned" =>
              /\ Len(outcome.sources) = Len(finalResults)
              /\ \A n \in 1..Len(finalResults) :
                    /\ outcome.sources[n].title = finalResults[n].paper.title
                    /\ outcome.sources[n].authors = finalResults[n].paper.authors
                    /\ outcome.sources[n].year = finalResults[n].paper.year
                    /\ outcome.sources[n].link = finalResults[n].paper.link
                    /\ outcome.sources[n].pages = finalResults[n].paper.pages
                    /\ outcome.sources[n].excerpt.text = finalResults[n].chunkContent.text

\* two sources, reranked into the reverse of the retrieval order
C9_Witness ==
    /\ Has(calls, "chat.done")
    /\ outcome.kind = "returned"
    /\ Len(finalResults) = 2
    /\ finalResults[1].paper.title = 2
    /\ finalResults[2].paper.title = 1
    /\ outcome.answer = "answer B"

\* C10: if the generation call fails, query throws and returns no response;
\* a returned response either carries the answer of a generation call that
\* succeeded or is the canned answer with no sources.
C10_GenerationFailureIsFatal ==
    /\ Has(calls, "chat.failed") =>
          /\ pc = "thrown"
          /\ outcome.kind = "thrown"
          /\ Has(calls, "generate.failed")
    /\ outcome.kind = "returned" =>
          \/ Has(calls, "chat.done") /\ outcome.answer \in Answers
          \/ outcome.answer = NoResultsAnswer /\ outcome.sources = <<>>

\* the chat model call failed for a query with two final results
C10_Witness ==
    /\ Has(calls, "chat.failed")
    /\ Len(finalResults) = 2
    /\ pc = "thrown"

-----------------------------------------------------------------------------
(* Failure of retrieval and the stage-2 decision, checked under Spec *)

Count(log, e) == Cardinality({i \in 1..Len(log) : log[i] = e})

SearchFailed == Has(calls, "search.failed")

\* C11: if connecting to the vector index or the similarity search fails,
\* query() throws after exactly one retrieval attempt (no retry), and neither
\* rerank nor generate is called.
C11_SearchFailureIsFatal ==
    SearchFailed =>
        /\ pc = "thrown"
        /\ outcome.kind = "thrown"
        /\ outcome.error[1] = "RAG pipeline failed"
        /\ outcome.error[2] = "Vector search failed"
        /\ outcome.error[3] \in SearchFailures
        /\ Count(calls, "search") = 1
        /\ calls = <<"search", "search.failed">>

C11_Witness ==
    /\ SearchFailed
    /\ pc = "thrown"
    /\ outcome.error[3] = "connection failed"

RerankTimeDefined(md) == md.rerankTimeMs # Absent

\* C12: in every response returned by query(), metadata.rerankTimeMs is
\* defined exactly when the external rerank scoring call was attempted; it is
\* absent when withReranking is false, when the reranker is unconfigured and
\* on the empty-candidates exit.
C12_RerankTimeIffApiAttempted ==
    pc = "returned" =>
        /\ RerankTimeDefined(outcome.metadata) <=> Has(calls, "cohere")
        /\ ~withReranking => ~RerankTimeDefined(outcome.metadata)
        /\ ~env.cohereEnabled => ~RerankTimeDefined(outcome.metadata)
        /\ Len(candidates) = 0 => ~RerankTimeDefined(outcome.metadata)

C12_Witness ==
    /\ pc = "returned"
    /\ RerankTimeDefined(outcome.metadata)
    /\ Has(calls, "cohere.failed")

C12_WitnessAbsent ==
    /\ pc = "returned"
    /\ withReranking
    /\ ~env.cohereEnabled
    /\ Len(candidates) > 0
    /\ ~RerankTimeDefined(outcome.metadata)

RequestedButUnconfigured ==
    /\ withReranking
    /\ ~env.cohereEnabled
    /\ Has(calls, "search.done")
    /\ Len(candidates) > 0

\* C13 as stated: when withReranking is true and the reranker is unconfigured,
\* the orchestrator still invokes rerank() and does not branch on whether the
\* reranker is available.
C13_UnconfiguredRerankerIsInvoked ==
    RequestedButUnconfigured => Has(calls, "rerank")

\* C13, amended: when withReranking is true and the reranker is unconfigured,
\* the orchestrator branches on isEnabled() and never invokes rerank(); it
\* builds the no-op fallback list itself (the first min(finalK, n) candidates
\* in retrieval order, rerankScore = originalScore = score) and leaves
\* rerankTimeMs undefined.
C13_UnconfiguredRerankerIsSkipped ==
    RequestedButUnconfigured =>
        /\ ~Has(calls, "rerank")
        /\ ~Has(calls, "cohere")
        /\ IsFallbackProjection(finalResults, candidates, finalK)
        /\ ~RerankTimeDefined(metadata)
        /\ Pos(calls, "generate") = Pos(calls, "search.done") + 1

C13_Witness ==
    /\ RequestedButUnconfigured
    /\ pc = "returned"
    /\ Len(finalResults) > 0
    /\ Len(finalResults) < Len(candidates)

-----------------------------------------------------------------------------
(* Concurrent executions and queryWithComparison, checked under SpecConcurrent *)

Finished(i) == i \in 1..Len(runs) /\ runs[i].pc \in {"returned", "thrown"}

\* C14: queryWithComparison(q) starts exactly two executions of query(), both
\* with the query q and the same retrieval width candidatesK, the first with
\* reranking forced on and the second with it forced off; whenever it returns,
\* it returns the responses of both.
C14_ComparisonRunsBothModes ==
    cmp.pc # "idle" =>
        /\ Len(runs) = 2
        /\ \A i \in 1..2 : /\ runs[i].query = cmp.query
                            /\ runs[i].searchQuery = cmp.query
                            /\ runs[i].searchK = VECTOR_SEARCH_K
        /\ runs[1].searchK = runs[2].searchK
        /\ runs[1].options.withReranking = "true"
        /\ runs[2].options.withReranking = "false"
        /\ cmp.pc = "returned" =>
              /\ \A i \in 1..2 : runs[i].pc = "returned"
              /\ cmp.result.withReranking = runs[1].outcome
              /\ cmp.result.withoutReranking = runs[2].outcome
              /\ cmp.result.withReranking.kind = "returned"
              /\ cmp.result.withoutReranking.kind = "returned"

C14_Witness ==
    /\ cmp.pc = "returned"
    /\ cmp.query = "q2"
    /\ cmp.result.improvement.sourcesChanged
    /\ cmp.result.improvement.latencyDiff > 0

\* a response without its four time measurements
SansTimes(o) ==
    [o EXCEPT !.metadata.retrievalTimeMs = 0,
              !.metadata.generationTimeMs = 0,
              !.metadata.totalTimeMs = 0,
              !.metadata.rerankTimeMs = IF @ = Absent THEN Absent ELSE Some(0)]

\* what query(o) gives when it runs alone, on a frame of its own, and its
\* collaborators answer as recorded in got
QueryAlone(o, enabled, got) ==
    IF got.connect = "failed"
    THEN Thrown(<<"Vector search failed", "connection failed">>)
    ELSE IF ~got.search.ok
    THEN Thrown(<<"Vector search failed", got.search.cause>>)
    ELSE LET s1 == AfterSearch(o, enabled, NoFrame, got.search.cands, 0)
             s2 == IF s1.pc = "reranking"
                   THEN AfterRerank(o, s1.frame, got.rerank, 0)
                   ELSE s1
             s3 == IF s2.pc = "generating"
                   THEN AfterChat(s2.frame, got.chat, 0)
                   ELSE s2
         IN  s3.outcome

\* C15: under every interleaving of two concurrent executions of query() on
\* one pipeline (the two comparison runs, or two batch members), the response
\* of each execution, its time measurements aside, equals the response it
\* gives when run alone against the same collaborator answers: no execution
\* reads or overwrites the candidates, final results or metadata of the other.
C15_ConcurrentRunsAreIsolated ==
    \A i \in 1..Len(runs) :
        /\ runs[i].got.search.ok =>
              frames[i].candidates = runs[i].got.search.cands
        /\ Finished(i) =>
              SansTimes(runs[i].outcome) =
                  SansTimes(QueryAlone(runs[i].options, env.cohereEnabled, runs[i].got))

C15_Witness ==
    /\ Len(runs) = 2
    /\ runs[1].pc = "returned"
    /\ runs[2].pc = "returned"
    /\ runs[1].got.rerank.ok
    /\ Len(runs[1].got.search.cands) = 2
    /\ Len(runs[2].got.search.cands) = 1
    /\ runs[1].outcome.metadata.retrievalTimeMs < runs[2].outcome.metadata.retrievalTimeMs
    /\ runs[2].outcome.metadata.totalTimeMs < runs[1].outcome.metadata.totalTimeMs

\* C16: if either run of queryWithComparison throws, queryWithComparison
\* throws: it returns neither response nor an improvement delta, and a
\* comparison with only one side filled in is never returned.
C16_ComparisonFailsAsAWhole ==
    /\ (cmp.pc # "idle" /\ \E i \in 1..Len(runs) : runs[i].pc = "thrown") =>
          /\ cmp.pc = "thrown"
          /\ cmp.result = NoComparison
          /\ cmp.status = 500
          /\ cmp.error[1] = "RAG pipeline failed"
    /\ cmp.pc = "returned" =>
          /\ cmp.result.withReranking.kind = "returned"
          /\ cmp.result.withoutReranking.kind = "returned"

C16_Witness ==
    /\ cmp.pc = "thrown"
    /\ runs[1].pc = "thrown"
    /\ runs[1].got.chat.content = "chat model error"
    /\ runs[2].pc = "returned"

\* C20: for one VectorSearchService the connection to the vector index is
\* established on the first search and reused by every later one: in every
\* interleaving of searches, also of searches started before the first
\* connection completes, at most one successful connection is ever created.
C20_AtMostOneConnection == store.opened <= 1

-----------------------------------------------------------------------------
(* POST /query/batch, checked under SpecBatch *)

\* C17: a batch request with more than 10 queries is rejected with a 400
\* error before any pipeline query is started; a batch of 0 to 10 non-empty
\* queries is accepted and every one of its queries is executed.
C17_BatchLimit ==
    batch.pc # "idle" =>
        /\ Len(batch.queries) > 10 =>
              /\ batch.pc = "responded"
              /\ batch.status = 400
              /\ batch.started = 0
              /\ batch.members = <<>>
        /\ (/\ Len(batch.queries) <= 10
            /\ \A i \in 1..Len(batch.queries) : batch.queries[i] # "") =>
              /\ batch.status # 400
              /\ batch.started = Len(batch.queries)
              /\ Len(batch.members) = Len(batch.queries)
              /\ \A i \in 1..Len(batch.queries) :
                    batch.members[i].query = batch.queries[i]

C17_Witness ==
    /\ Len(batch.queries) = 10
    /\ batch.status = 200
    /\ batch.started = 10

C17_WitnessRejected ==
    /\ Len(batch.queries) = 11
    /\ \A i \in 1..11 : batch.queries[i] # ""
    /\ batch.status = 400

\* the sum of metadata.totalTimeMs over the first n responses
RECURSIVE TotalOfFirst(_, _)
TotalOfFirst(results, n) ==
    IF n = 0 THEN 0 ELSE TotalOfFirst(results, n - 1) + results[n].totalTimeMs

\* C18: the batch response's totalTimeMs is the sum of metadata.totalTimeMs
\* over the responses in results (0 for an empty batch), not the elapsed time
\* of the batch.
C18_BatchTotalIsSum ==
    batch.status = 200 =>
        /\ batch.response.queries = Len(batch.queries)
        /\ Len(batch.response.results) = Len(batch.queries)
        /\ batch.response.results = batch.members
        /\ batch.response.totalTimeMs =
              TotalOfFirst(batch.response.results, Len(batch.response.results))
        /\ Len(batch.queries) = 0 => batch.response.totalTimeMs = 0

C18_Witness ==
    /\ batch.status = 200
    /\ Len(batch.queries) = 3
    /\ batch.response.totalTimeMs = 5
    /\ LargestTotalTime(batch.response.results) = 2

C18_WitnessEmpty ==
    /\ batch.status = 200
    /\ Len(batch.queries) = 0
    /\ batch.response.totalTimeMs = 0

-----------------------------------------------------------------------------
(* RAGPipeline.healthCheck, checked under SpecHealth *)

\* C19: healthCheck completes with overall equal to the result of the
\* vector-search check in every case; the result of the reranker check (true,
\* false, or a failure caught inside it) never changes overall.
C19_OverallIsVectorSearch ==
    /\ (health.vs.pc = "done" /\ health.rk.pc = "done") => health.pc = "done"
    /\ health.pc = "done" =>
          /\ health.result.overall = health.vs.ok
          /\ health.result.vectorSearch = health.vs.ok
          /\ health.result.reranker = health.rk.ok
          /\ health.status = IF health.vs.ok THEN 200 ELSE 503

C19_Witness ==
    /\ health.pc = "done"
    /\ health.vs.ok
    /\ ~health.rk.ok
    /\ health.rk.caught = "unauthorized"
    /\ health.result.overall

C19_WitnessUnhealthy ==
    /\ health.pc = "done"
    /\ ~health.vs.ok
    /\ health.rk.ok
    /\ ~health.result.overall

-----------------------------------------------------------------------------
(* Termination of query(), checked under SpecUnanswered *)

\* C21: every query eventually completes (returns a response or throws), also
\* when an external call (search, rerank or generation) never responds: the
\* unanswered call times out, which ends the query.
C21_QueryCompletes == <>(pc \in {"returned", "thrown"})

-----------------------------------------------------------------------------
(* VectorSearchService.search, checked under SpecSearch *)

Clamp(x, lo, hi) == IF x < lo THEN lo ELSE IF x > hi THEN hi ELSE x

\* C22: every score returned by search equals clamp(1 - distance, 0, 1) and
\* so lies in [0, 1], for every raw distance the index returns, also for
\* distances below 0 and above 1.
C22_ScoreIsClampedSimilarity ==
    vsearch.pc = "returned" =>
        /\ Len(vsearch.results) = Len(vsearch.raw)
        /\ \A i \in 1..Len(vsearch.results) :
              /\ vsearch.results[i].score = Clamp(ScoreUnit - vsearch.raw[i], 0, ScoreUnit)
              /\ vsearch.results[i].score >= 0
              /\ vsearch.results[i].score <= ScoreUnit

C22_Witness ==
    /\ vsearch.pc = "returned"
    /\ Len(vsearch.raw) = 2
    /\ vsearch.raw[1] < 0
    /\ vsearch.results[1].score = ScoreUnit
    /\ vsearch.raw[2] > ScoreUnit
    /\ vsearch.results[2].score = 0

-----------------------------------------------------------------------------
(* Time measurements and scores of a response, checked under Spec *)

\* C23: totalTimeMs runs from one start timestamp before retrieval to one end
\* timestamp after the last stage and is not the sum of the stage times; with
\* a clock that never goes backwards every returned response has
\* totalTimeMs >= retrievalTimeMs + (rerankTimeMs or 0) + generationTimeMs,
\* on the normal path and on the empty-candidates exit.
C23_TotalTimeIsEndToEnd ==
    pc = "returned" =>
        /\ outcome.metadata.totalTimeMs = now - pipelineStartTime
        /\ outcome.metadata.totalTimeMs >=
              outcome.metadata.retrievalTimeMs + RerankTimeOrZero(outcome.metadata)
                  + outcome.metadata.generationTimeMs

C23_Witness ==
    /\ pc = "returned"
    /\ Has(calls, "cohere.done")
    /\ Has(calls, "chat.done")
    /\ outcome.metadata.rerankTimeMs = Some(1)
    /\ outcome.metadata.totalTimeMs >
          outcome.metadata.retrievalTimeMs + RerankTimeOrZero(outcome.metadata)
              + outcome.metadata.generationTimeMs

C23_WitnessEmptyExit ==
    /\ pc = "returned"
    /\ Len(candidates) = 0
    /\ Has(calls, "search.done")
    /\ outcome.metadata.totalTimeMs > outcome.metadata.retrievalTimeMs

\* C24: for every source in every response, relevanceScore equals the
\* rerankScore of the ranked candidate it was projected from, on the reranked
\* path and on both fallback paths, also when that rerankScore is 0.
C24_RelevanceIsRerankScore ==
    pc = "returned" =>
        /\ Len(outcome.sources) = Len(finalResults)
        /\ \A i \in 1..Len(outcome.sources) :
              /\ outcome.sources[i].title = finalResults[i].paper.title
              /\ outcome.sources[i].relevanceScore = finalResults[i].rerankScore

C24_Witness ==
    /\ pc = "returned"
    /\ Has(calls, "cohere.done")
    /\ \E i \in 1..Len(outcome.sources) :
          /\ finalResults[i].rerankScore = 0
          /\ finalResults[i].originalScore = 1
          /\ outcome.sources[i].relevanceScore = 0

C24_WitnessFallback ==
    /\ pc = "returned"
    /\ Has(calls, "cohere.failed")
    /\ \E i \in 1..Len(outcome.sources) :
          /\ finalResults[i].rerankScore = 0
          /\ outcome.sources[i].relevanceScore = 0

-----------------------------------------------------------------------------
(* Items returned by CohereReranker.rerank, checked under SpecRerank *)

\* item carries paper, text and retrieval score of the candidate c
ItemIsOf(item, c) ==
    /\ item.paper = c.paper
    /\ item.chunkContent = c.chunkContent
    /\ item.originalScore = c.score

rrMapped == rrApiSucceeded /\ ~rrIndexOutOfRange

\* C25: every item returned by rerank carries the paper metadata, the matched
\* text and the originalScore of one and the same input candidate: on success
\* the candidate at the index the scoring call reported, together with that
\* entry's score as rerankScore; on fallback the candidate at the same
\* position. No item combines fields of two candidates.
C25_ItemsAreWholeCandidates ==
    rr.pc = "returned" =>
        IF rrMapped
        THEN /\ Len(rr.result) = Len(rr.out.results)
             /\ \A i \in 1..Len(rr.result) :
                   \E j \in 1..Len(rr.out.results) :
                       /\ ItemIsOf(rr.result[i],
                                   rr.candidates[rr.out.results[j].index + 1])
                       /\ rr.result[i].rerankScore = rr.out.results[j].relevanceScore
        ELSE \A i \in 1..Len(rr.result) :
                 /\ ItemIsOf(rr.result[i], rr.candidates[i])
                 /\ rr.result[i].rerankScore = rr.candidates[i].score

C25_Witness ==
    /\ rr.pc = "returned"
    /\ rrMapped
    /\ Len(rr.candidates) = 2
    /\ Len(rr.result) = 2
    /\ rr.out.results[1].index = 1
    /\ rr.out.results[2].index = 0
    /\ rr.result[1].paper = rr.candidates[2].paper
    /\ rr.result[2].chunkContent = rr.candidates[1].chunkContent

-----------------------------------------------------------------------------
(* Order of the batch results, checked under SpecBatch *)

\* C26: in a batch, results[i] is the response to queries[i] for every i,
\* whatever order the concurrently running queries complete in; if any query
\* of the batch throws, the batch returns no results at all.
C26_BatchResultsFollowRequestOrder ==
    /\ batch.status = 200 =>
          /\ Len(batch.response.results) = Len(batch.queries)
          /\ \A i \in 1..Len(batch.queries) :
                /\ batch.response.results[i].query = batch.queries[i]
                /\ batch.response.results[i].pc = "returned"
    /\ (\E i \in 1..Len(batch.members) : batch.members[i].pc = "thrown") =>
          /\ batch.status = 500
          /\ batch.response = NoBatchResponse

C26_Witness ==
    /\ batch.status = 200
    /\ Len(batch.queries) = 3
    /\ batch.response.results[1].totalTimeMs = 2
    /\ batch.response.results[2].totalTimeMs = 1
    /\ batch.response.results[3].totalTimeMs = 2
    /\ batch.response.results[2].query = "q2"

C26_WitnessThrown ==
    /\ batch.status = 500
    /\ Len(batch.queries) = 3
    /\ batch.members[1].pc = "returned"
    /\ batch.members[2].pc = "thrown"
    /\ batch.members[3].pc = "pending"

-----------------------------------------------------------------------------
(* VectorSearchService.healthCheck, checked under SpecHealth *)

\* C27: the vector-search health check reports true if and only if the store
\* can be reached and the minimal retrieval call completes without error; in
\* particular a reachable but empty index, for which search returns an empty
\* list and no error, is reported healthy.
C27_HealthyIffRetrievalCompletes ==
    health.vs.pc = "done" =>
        (health.vs.ok <=> health.vs.caught = Undefined)

-----------------------------------------------------------------------------
(* Counts of a response, checked under Spec *)

\* C28: in every response returned by query, metadata.finalCount equals the
\* length of sources: on the empty-candidates exit (both 0), when reranking is
\* skipped, when rerank falls back, and when a successful rerank returns any
\* list, the empty one included.
C28_FinalCountIsSourceCount ==
    pc = "returned" =>
        /\ outcome.metadata.finalCount = Len(outcome.sources)
        /\ SearchReturnedEmpty =>
              (outcome.metadata.finalCount = 0 /\ outcome.sources = <<>>)

C28_Witness ==
    /\ pc = "returned"
    /\ Has(calls, "cohere.done")
    /\ Len(candidates) = 2
    /\ outcome.metadata.finalCount = 1
    /\ Len(outcome.sources) = 1
    /\ outcome.sources[1].relevanceScore = 0

C28_WitnessEmptyRerank ==
    /\ pc = "returned"
    /\ Has(calls, "cohere.done")
    /\ Len(candidates) > 0
    /\ outcome.metadata.finalCount = 0
    /\ outcome.sources = <<>>

-----------------------------------------------------------------------------
(* Size of the list returned by rerank, checked under SpecRerank *)

\* C29: the list returned by rerank never has more than
\* min(topK, len(candidates)) items and never contains the same input
\* candidate twice, whatever the external scoring call returns (more than
\* topN results and a repeated index included).
C29_RerankReturnsBoundedSubset ==
    rr.pc = "returned" =>
        /\ Len(rr.result) <= Min(rrTopK, Len(rr.candidates))
        /\ \A i, j \in 1..Len(rr.result) :
              i # j => rr.result[i].paper # rr.result[j].paper

-----------------------------------------------------------------------------
(* The improvement delta of queryWithComparison, checked under SpecConcurrent *)

\* C30: queryWithComparison computes improvement.avgScoreImprovement as a
\* well-defined number for every pair of responses it returns, also when one
\* or both have an empty sources list: no average is taken by dividing by a
\* source count of zero.
C30_AverageIsWellDefined ==
    cmp.pc = "returned" =>
        /\ cmp.result.improvement.avgScoreWith.n > 0
        /\ cmp.result.improvement.avgScoreWithout.n > 0

====
